---------------------------- MODULE Spec2Model ----------------------------
(***************************************************************************)
(* Model of the IRVE dashboard's data path: utils/prep.py                  *)
(* (clean_irve_data) and utils/viz.py (the chart builders), specification  *)
(* Spec; and of a Streamlit session of app.py with utils/io.py (load_data) *)
(* and the sections, specifications App and AppLive.                       *)
(*                                                                         *)
(* Representation.                                                         *)
(*  - A text is a tuple of one-character strings, so that strip, lower and *)
(*    title act on characters as Python's do.                              *)
(*  - A number is a fixed-point integer counting hundredths                *)
(*    (48.85 is 4885, 50 kW is 5000); Scale is that factor.                *)
(*  - A cell is a record tagged by t: "nan" (NaN / None / NaT), "num",     *)
(*    "str", "date" (a parsed timestamp) or "cat" (a pd.cut label).        *)
(*  - A DataFrame is [columns, index, values]: the column labels in order, *)
(*    the row labels in order, and one tuple of cells per column.          *)
(*  - Python names refer to objects: heap holds the caller's frame (arg)   *)
(*    and the working frame (loc); df says which one the local name df is  *)
(*    bound to.                                                            *)
(*  - The en dash of the category labels is written "-" (ASCII).           *)
(***************************************************************************)
EXTENDS Integers, Sequences, FiniteSets, TLC

\* fixed-point factor: numbers are counted in hundredths
Scale == 100

-----------------------------------------------------------------------------
(* Characters and Python's str methods                                     *)

Uppers == <<"A","B","C","D","E","F","G","H","I","J","K","L","M",
            "N","O","P","Q","R","S","T","U","V","W","X","Y","Z">>
Lowers == <<"a","b","c","d","e","f","g","h","i","j","k","l","m",
            "n","o","p","q","r","s","t","u","v","w","x","y","z">>
Digits == <<"0","1","2","3","4","5","6","7","8","9">>

\* each cased letter's other case, each digit's value
LowerOf == [c \in {Uppers[i] : i \in 1..26} |-> Lowers[CHOOSE i \in 1..26 : Uppers[i] = c]]
UpperOf == [c \in {Lowers[i] : i \in 1..26} |-> Uppers[CHOOSE i \in 1..26 : Lowers[i] = c]]
ValueOf == [c \in {Digits[i] : i \in 1..10} |-> (CHOOSE i \in 1..10 : Digits[i] = c) - 1]

IsUpper(c) == c \in DOMAIN LowerOf
IsLower(c) == c \in DOMAIN UpperOf
IsDigit(c) == c \in DOMAIN ValueOf
IsSpace(c) == c \in {" ", "\t", "\n"}

CharLower(c) == IF IsUpper(c) THEN LowerOf[c] ELSE c
CharUpper(c) == IF IsLower(c) THEN UpperOf[c] ELSE c
DigitVal(c) == ValueOf[c]

\* str.lower()
StrLower(s) == [i \in 1..Len(s) |-> CharLower(s[i])]

RECURSIVE LStrip(_)
LStrip(s) == IF s # <<>> /\ IsSpace(Head(s)) THEN LStrip(Tail(s)) ELSE s

RECURSIVE RStrip(_)
RStrip(s) == IF s # <<>> /\ IsSpace(s[Len(s)])
             THEN RStrip(SubSeq(s, 1, Len(s) - 1)) ELSE s

\* str.strip()
StrStrip(s) == RStrip(LStrip(s))

\* str.title(): a cased character is upper-cased when the previous character
\* is not cased and lower-cased when it is.
StrTitle(s) ==
    [i \in 1..Len(s) |->
        LET prevCased == i > 1 /\ (IsUpper(s[i-1]) \/ IsLower(s[i-1]))
        IN  IF prevCased THEN CharLower(s[i]) ELSE CharUpper(s[i])]

-----------------------------------------------------------------------------
(* Cells                                                                   *)

NaN == [t |-> "nan"]
Num(v) == [t |-> "num", v |-> v]
Str(s) == [t |-> "str", s |-> s]
Cat(l) == [t |-> "cat", l |-> l]
Date(y, m, d) == [t |-> "date", y |-> y, m |-> m, d |-> d]

\* pd.isna
IsNa(c) == c.t = "nan"

RECURSIVE DigitsValue(_)
DigitsValue(s) == IF s = <<>> THEN 0
                  ELSE 10 * DigitsValue(SubSeq(s, 1, Len(s) - 1)) + DigitVal(s[Len(s)])

AllDigits(s) == \A i \in 1..Len(s) : IsDigit(s[i])

\* the hundredths written by up to two decimals
FracValue(f) == IF Len(f) = 0 THEN 0
                ELSE IF Len(f) = 1 THEN 10 * DigitVal(f[1])
                ELSE DigitsValue(f)

\* an unsigned decimal text: digits, optionally a point and up to two decimals
ParseUnsigned(s) ==
    LET dots == {i \in 1..Len(s) : s[i] = "."}
    IN  IF dots = {}
        THEN IF s # <<>> /\ AllDigits(s) THEN Num(Scale * DigitsValue(s)) ELSE NaN
        ELSE LET p == CHOOSE i \in dots : TRUE
                 ip == SubSeq(s, 1, p - 1)
                 fp == SubSeq(s, p + 1, Len(s))
             IN  IF Cardinality(dots) = 1 /\ ip # <<>> /\ AllDigits(ip)
                    /\ AllDigits(fp) /\ Len(fp) <= 2
                 THEN Num(Scale * DigitsValue(ip) + FracValue(fp))
                 ELSE NaN

\* the number a text spells, NaN when it spells none
ParseNumber(s) ==
    LET u == StrStrip(s)
    IN  IF u # <<>> /\ Head(u) = "-"
        THEN LET r == ParseUnsigned(Tail(u))
             IN  IF IsNa(r) THEN NaN ELSE Num(0 - r.v)
        ELSE ParseUnsigned(u)

\* pd.to_numeric(errors="coerce") on one cell
ToNumeric(c) == IF c.t = "num" THEN c
                ELSE IF c.t = "str" THEN ParseNumber(c.s)
                ELSE NaN

DaysInMonth(y, m) ==
    IF m \in {4, 6, 9, 11} THEN 30
    ELSE IF m = 2
         THEN (IF (y % 4 = 0 /\ y % 100 # 0) \/ y % 400 = 0 THEN 29 ELSE 28)
         ELSE 31

\* an ISO calendar date YYYY-MM-DD, NaT for any other text
ParseDate(s) ==
    IF Len(s) = 10 /\ s[5] = "-" /\ s[8] = "-"
       /\ AllDigits(SubSeq(s, 1, 4)) /\ AllDigits(SubSeq(s, 6, 7))
       /\ AllDigits(SubSeq(s, 9, 10))
    THEN LET y == DigitsValue(SubSeq(s, 1, 4))
             m == DigitsValue(SubSeq(s, 6, 7))
             d == DigitsValue(SubSeq(s, 9, 10))
         IN  IF m \in 1..12 /\ d >= 1 /\ d <= DaysInMonth(y, m)
             THEN Date(y, m, d) ELSE NaN
    ELSE NaN

\* pd.to_datetime(errors="coerce") on one cell
ToDatetime(c) == IF c.t = "date" THEN c
                 ELSE IF c.t = "str" THEN ParseDate(StrStrip(c.s))
                 ELSE NaN

\* Series.dt.year on one cell
DtYear(c) == IF c.t = "date" THEN Num(Scale * c.y) ELSE NaN

RECURSIVE NatToStr(_)
NatToStr(n) == IF n < 10 THEN <<Digits[n + 1]>>
               ELSE NatToStr(n \div 10) \o <<Digits[(n % 10) + 1]>>

\* astype(str) on one cell
AsStr(c) ==
    IF c.t = "str" THEN c.s
    ELSE IF c.t = "nan" THEN <<"n","a","n">>
    ELSE IF c.t = "cat" THEN c.l
    ELSE IF c.t = "num"
         THEN LET a == IF c.v < 0 THEN 0 - c.v ELSE c.v
                  f == a % Scale
              IN  (IF c.v < 0 THEN <<"-">> ELSE <<>>) \o NatToStr(a \div Scale)
                  \o <<".">> \o (IF f % 10 = 0 THEN NatToStr(f \div 10)
                                 ELSE <<Digits[(f \div 10) + 1], Digits[(f % 10) + 1]>>)
    ELSE NatToStr(c.y) \o <<"-">> \o (IF c.m < 10 THEN <<"0">> ELSE <<>>)
         \o NatToStr(c.m) \o <<"-">> \o (IF c.d < 10 THEN <<"0">> ELSE <<>>)
         \o NatToStr(c.d)

-----------------------------------------------------------------------------
(* Column labels the code names                                            *)

id_pdc_itinerance == <<"i","d","_","p","d","c","_","i","t","i","n","e","r","a","n","c","e">>
id_pdc_local == <<"i","d","_","p","d","c","_","l","o","c","a","l">>
nom_amenageur == <<"n","o","m","_","a","m","e","n","a","g","e","u","r">>
nom_operateur == <<"n","o","m","_","o","p","e","r","a","t","e","u","r">>
nom_commune == <<"n","o","m","_","c","o","m","m","u","n","e">>
consolidated_latitude == <<"c","o","n","s","o","l","i","d","a","t","e","d","_","l","a","t","i","t","u","d","e">>
consolidated_longitude == <<"c","o","n","s","o","l","i","d","a","t","e","d","_","l","o","n","g","i","t","u","d","e">>
puissance_nominale == <<"p","u","i","s","s","a","n","c","e","_","n","o","m","i","n","a","l","e">>
categorie_puissance == <<"c","a","t","e","g","o","r","i","e","_","p","u","i","s","s","a","n","c","e">>
date_mise_en_service == <<"d","a","t","e","_","m","i","s","e","_","e","n","_","s","e","r","v","i","c","e">>
annee_mise_en_service == <<"a","n","n","e","e","_","m","i","s","e","_","e","n","_","s","e","r","v","i","c","e">>

\* pd.cut's edges (kW) and labels
bins == <<0, 22, 50, 150, 1000>>
labels == << <<"N","o","r","m","a","l"," ","(","<","2","2","k","W",")">>,
             <<"F","a","s","t"," ","(","2","2","-","5","0","k","W",")">>,
             <<"V","e","r","y"," ","f","a","s","t"," ","(","5","0","-","1","5","0","k","W",")">>,
             <<"U","l","t","r","a","-","f","a","s","t"," ","(",">","1","5","0","k","W",")">> >>

\* the columns the dashboard keeps, in this order
keep == << nom_amenageur, nom_operateur, nom_commune,
           consolidated_latitude, consolidated_longitude,
           puissance_nominale, categorie_puissance,
           date_mise_en_service, annee_mise_en_service >>

\* the identifier columns, in the order the code tries them
id_columns == << id_pdc_itinerance, id_pdc_local >>
coord_columns == << consolidated_latitude, consolidated_longitude >>
text_columns == << nom_amenageur, nom_operateur, nom_commune >>

-----------------------------------------------------------------------------
(* DataFrames                                                              *)

NoFrame == [columns |-> <<>>, index |-> <<>>, values |-> <<>>]

NRows(t) == Len(t.index)
NCols(t) == Len(t.columns)

\* is some column labelled name
InColumns(t, name) == \E j \in 1..NCols(t) : t.columns[j] = name

ColPos(t, name) == CHOOSE j \in 1..NCols(t) : t.columns[j] = name

\* df[name], for a label that exists
GetItem(t, name) == t.values[ColPos(t, name)]

\* df[name] = vals: replaces the column in place, or appends a new last column
SetItem(t, name, vals) ==
    IF InColumns(t, name)
    THEN [t EXCEPT !.values[ColPos(t, name)] = vals]
    ELSE [t EXCEPT !.columns = Append(@, name), !.values = Append(@, vals)]

MapCells(vals, Op(_)) == [i \in 1..Len(vals) |-> Op(vals[i])]

RECURSIVE KeptPositions(_, _)
KeptPositions(mask, i) ==
    IF i > Len(mask) THEN <<>>
    ELSE (IF mask[i] THEN <<i>> ELSE <<>>) \o KeptPositions(mask, i + 1)

\* df[mask]: the rows whose mask is TRUE, with their labels, in order
TakeRows(t, mask) ==
    LET p == KeptPositions(mask, 1)
    IN  [columns |-> t.columns,
         index   |-> [k \in 1..Len(p) |-> t.index[p[k]]],
         values  |-> [j \in 1..NCols(t) |-> [k \in 1..Len(p) |-> t.values[j][p[k]]]]]

\* df[names]: the named columns, in the order of names
TakeColumns(t, names) ==
    [columns |-> names,
     index   |-> t.index,
     values  |-> [j \in 1..Len(names) |-> GetItem(t, names[j])]]

\* [c for c in names if c in cols]
Present(names, t) == SelectSeq(names, LAMBDA c : InColumns(t, c))

\* the outcome of a statement: the frame it leaves, or a raised KeyError
Ok(t) == [err |-> FALSE, t |-> t]
Raise(t) == [err |-> TRUE, t |-> t]
Then(r, F(_)) == IF r.err THEN r ELSE F(r.t)

\* df[target] = Op(df[col]): df[col] raises KeyError when col is no column
Transform(t, col, target, Op(_)) ==
    IF InColumns(t, col)
    THEN Ok(SetItem(t, target, MapCells(GetItem(t, col), Op)))
    ELSE Raise(t)

-----------------------------------------------------------------------------
(* clean_irve_data, statement by statement                                 *)

\* df.copy(): the object the copy lives in
NoCopy(ref) == ref
CopyOf(ref) == "loc"

\* df.columns.str.strip().str.lower()
NormalizeAsIs(cols) == cols
NormalizeColumns(cols) == [j \in 1..Len(cols) |-> StrLower(StrStrip(cols[j]))]

\* `col in df.columns`, the test that guards a step
AlwaysPresent(t, col) == TRUE
ColumnPresent(t, col) == InColumns(t, col)

\* step 3: parse the service date, derive the year
ParseServiceDate(t) ==
    IF ColumnPresent(t, date_mise_en_service)
    THEN Then(Transform(t, date_mise_en_service, date_mise_en_service, ToDatetime),
              LAMBDA u : Transform(u, date_mise_en_service, annee_mise_en_service, DtYear))
    ELSE Ok(t)

\* step 4: one pass of the loop over the coordinate columns
CoerceColumn(t, col) ==
    IF ColumnPresent(t, col) THEN Transform(t, col, col, ToNumeric) ELSE Ok(t)

CoerceCoordinates(t) ==
    Then(CoerceColumn(t, consolidated_latitude),
         LAMBDA u : CoerceColumn(u, consolidated_longitude))

\* pd.cut(x, bins, labels, right=False) on one cell
CutRightClosed(c) ==
    IF IsNa(c) THEN NaN
    ELSE IF \E i \in 1..4 : bins[i] * Scale < c.v /\ c.v <= bins[i+1] * Scale
         THEN Cat(labels[CHOOSE i \in 1..4 :
                            bins[i] * Scale < c.v /\ c.v <= bins[i+1] * Scale])
         ELSE NaN
Cut(c) ==
    IF IsNa(c) THEN NaN
    ELSE IF \E i \in 1..4 : bins[i] * Scale <= c.v /\ c.v < bins[i+1] * Scale
         THEN Cat(labels[CHOOSE i \in 1..4 :
                            bins[i] * Scale <= c.v /\ c.v < bins[i+1] * Scale])
         ELSE NaN

\* step 5: coerce the power, derive its category
CategorizePower(t) ==
    IF ColumnPresent(t, puissance_nominale)
    THEN Then(Transform(t, puissance_nominale, puissance_nominale, ToNumeric),
              LAMBDA u : Transform(u, puissance_nominale, categorie_puissance, Cut))
    ELSE Ok(t)

\* .str.title().str.strip() without the astype(str): undefined stays undefined
TitleKeepsNa(c) == IF IsNa(c) THEN NaN ELSE Str(StrStrip(StrTitle(AsStr(c))))

\* astype(str).str.title().str.strip() on one cell
TitleOnly(c) == Str(StrTitle(AsStr(c)))
CleanText(c) == Str(StrStrip(StrTitle(AsStr(c))))

\* step 6: one pass of the loop over the name columns
CleanTextColumn(t, col) ==
    IF ColumnPresent(t, col) THEN Transform(t, col, col, CleanText) ELSE Ok(t)

CleanTextFields(t) ==
    Then(CleanTextColumn(t, nom_amenageur),
         LAMBDA u : Then(CleanTextColumn(u, nom_operateur),
                         LAMBDA w : CleanTextColumn(w, nom_commune)))

\* the key of row i over the columns keys
RowKey(t, keys, i) == [k \in 1..Len(keys) |-> GetItem(t, keys[k])[i]]

\* DataFrame.duplicated(subset=keys, keep=...)
DuplicatedKeepLast(t, keys) ==
    [i \in 1..NRows(t) |-> \E h \in (i+1)..NRows(t) : RowKey(t, keys, h) = RowKey(t, keys, i)]
\* duplicated() as it would be if an undefined value equalled nothing
DuplicatedDefinedOnly(t, keys) ==
    [i \in 1..NRows(t) |->
        \E h \in 1..(i-1) :
            /\ RowKey(t, keys, h) = RowKey(t, keys, i)
            /\ \A k \in 1..Len(keys) : ~IsNa(RowKey(t, keys, i)[k])]

\* duplicated() as it would be were the rows without coordinates dropped first
DuplicatedAmongLocated(t, keys) ==
    [i \in 1..NRows(t) |->
        \E h \in 1..(i-1) :
            /\ RowKey(t, keys, h) = RowKey(t, keys, i)
            /\ \A k \in 1..Len(coord_columns) :
                  InColumns(t, coord_columns[k]) => ~IsNa(GetItem(t, coord_columns[k])[h])]
Duplicated(t, keys) ==
    [i \in 1..NRows(t) |-> \E h \in 1..(i-1) : RowKey(t, keys, h) = RowKey(t, keys, i)]

\* step 7: drop_duplicates(subset=keys, keep="first") when keys is not empty
DropDuplicates(t) ==
    LET keys == SelectSeq(id_columns, LAMBDA k : ColumnPresent(t, k))
    IN  IF keys # <<>>
        THEN IF \A k \in 1..Len(keys) : InColumns(t, keys[k])
             THEN Ok(TakeRows(t, [i \in 1..NRows(t) |-> ~Duplicated(t, keys)[i]]))
             ELSE Raise(t)
        ELSE Ok(t)

\* {lat, lon}.issubset(df.columns)
EitherCoordinate(t) ==
    ColumnPresent(t, consolidated_latitude) \/ ColumnPresent(t, consolidated_longitude)
BothCoordinates(t) ==
    ColumnPresent(t, consolidated_latitude) /\ ColumnPresent(t, consolidated_longitude)

\* dropna's default how="any": row i stays when no subset cell is missing
SomeDefined(t, subset, i) == \E k \in 1..Len(subset) : ~IsNa(GetItem(t, subset[k])[i])
AllDefined(t, subset, i) == \A k \in 1..Len(subset) : ~IsNa(GetItem(t, subset[k])[i])

\* step 8: dropna(subset=[lat, lon])
DropMissingCoordinates(t) ==
    IF BothCoordinates(t)
    THEN IF \A k \in 1..2 : InColumns(t, coord_columns[k])
         THEN Ok(TakeRows(t, [i \in 1..NRows(t) |-> AllDefined(t, coord_columns, i)]))
         ELSE Raise(t)
    ELSE Ok(t)

\* steps 9-10: df[keep] for the kept columns that exist
ProjectAll(t) == t
ProjectReindex(t) ==
    [columns |-> keep,
     index   |-> t.index,
     values  |-> [j \in 1..Len(keep) |->
                    IF InColumns(t, keep[j]) THEN GetItem(t, keep[j])
                    ELSE [i \in 1..NRows(t) |-> NaN]]]
Project(t) == TakeColumns(t, Present(keep, t))

-----------------------------------------------------------------------------
(* utils/viz.py: what each chart builder hands to the plotting library     *)

col__lat == <<"_","_","l","a","t">>
col__lon == <<"_","_","l","o","n">>
col__size == <<"_","_","s","i","z","e">>
Unknown == <<"U","n","k","n","o","w","n">>

NoChart == [kind |-> "none"]
KeyError(col) == [kind |-> "KeyError", col |-> col]

\* the builder's frames: the caller's (arg) and the builder's own (loc)
Frames(t) == [arg |-> t, loc |-> NoFrame]

\* the members of a set of integers, ascending
RECURSIVE SetToSeq(_)
SetToSeq(S) == IF S = {} THEN <<>>
               ELSE LET m == CHOOSE x \in S : \A y \in S : x <= y
                    IN  <<m>> \o SetToSeq(S \ {m})

\* np.clip(x, lo, hi)
Clip(v, lo, hi) == IF v < lo THEN lo ELSE IF v > hi THEN hi ELSE v

\* np.clip(to_numeric(power).fillna(7), 5, 40) on one cell
MarkerSize(c) ==
    LET n == ToNumeric(c)
    IN  Num(Clip(IF IsNa(n) THEN 7 * Scale ELSE n.v, 5 * Scale, 40 * Scale))

\* map_irve_points: the frames after the call and the layer's data
MapIrvePoints(t) ==
    LET r  == CopyOf("arg")
        h0 == [Frames(t) EXCEPT ![r] = t]
        a  == Then(Transform(h0[r], consolidated_latitude, col__lat, ToNumeric),
                   LAMBDA u : Transform(u, consolidated_longitude, col__lon, ToNumeric))
        b  == Then(a, LAMBDA u :
                   IF InColumns(u, puissance_nominale)
                   THEN Transform(u, puissance_nominale, col__size, MarkerSize)
                   ELSE Ok(SetItem(u, col__size, [i \in 1..NRows(u) |-> Num(8 * Scale)])))
        h1 == [h0 EXCEPT ![r] = b.t]
    IN  [frames |-> h1,
         chart  |-> IF b.err
                    THEN KeyError(IF InColumns(t, consolidated_latitude)
                                  THEN consolidated_longitude ELSE consolidated_latitude)
                    ELSE [kind |-> "map",
                          data |-> TakeRows(b.t, [i \in 1..NRows(b.t) |->
                                      AllDefined(b.t, <<col__lat, col__lon>>, i)])]]

\* Series.dt.to_period(freq), as the number of the period
ToPeriod(c, freq) ==
    IF freq = "Y" THEN c.y
    ELSE IF freq = "Q" THEN 4 * c.y + ((c.m - 1) \div 3)
    ELSE 12 * c.y + (c.m - 1)

\* the points sorted the other way round, the latest period first
LineNewestFirst(t, freq) ==
    IF ~InColumns(t, date_mise_en_service) THEN KeyError(date_mise_en_service)
    ELSE LET s  == MapCells(GetItem(t, date_mise_en_service), ToDatetime)
             ps == {ToPeriod(s[i], freq) : i \in {k \in 1..Len(s) : ~IsNa(s[k])}}
             sq == SetToSeq(ps)
         IN  [kind |-> "line",
              data |-> [k \in 1..Len(sq) |->
                          [period |-> sq[Len(sq) + 1 - k],
                           count  |-> Cardinality({i \in 1..Len(s) :
                                         ~IsNa(s[i]) /\ ToPeriod(s[i], freq) = sq[Len(sq) + 1 - k]})]]]

\* line_installations_over_time: one point per period, in period order
LineInstallationsOverTime(t, freq) ==
    IF ~InColumns(t, date_mise_en_service) THEN KeyError(date_mise_en_service)
    ELSE LET s  == MapCells(GetItem(t, date_mise_en_service), ToDatetime)
             ps == {ToPeriod(s[i], freq) : i \in {k \in 1..Len(s) : ~IsNa(s[k])}}
             sq == SetToSeq(ps)
         IN  [kind |-> "line",
              data |-> [k \in 1..Len(sq) |->
                          [period |-> sq[k],
                           count  |-> Cardinality({i \in 1..Len(s) :
                                         ~IsNa(s[i]) /\ ToPeriod(s[i], freq) = sq[k]})]]]

\* the distinct values of a tuple, in order of first appearance
RECURSIVE UniqueInOrder(_)
UniqueInOrder(s) ==
    IF s = <<>> THEN <<>>
    ELSE LET r == UniqueInOrder(SubSeq(s, 1, Len(s) - 1))
             x == s[Len(s)]
         IN  IF \E k \in 1..Len(r) : r[k] = x THEN r ELSE Append(r, x)

\* Series.value_counts(sort=False): one [key, count] per distinct value
CountsOf(s) ==
    LET u == UniqueInOrder(s)
    IN  [k \in 1..Len(u) |->
            [key |-> u[k], count |-> Cardinality({i \in 1..Len(s) : s[i] = u[k]})]]

RemoveAt(s, k) == SubSeq(s, 1, k - 1) \o SubSeq(s, k + 1, Len(s))

\* sort_values(ascending=False) on counts; equal counts stay in their order
\* (numpy sorts the model's short arrays by insertion)
RECURSIVE SortDescending(_)
SortDescending(s) ==
    IF s = <<>> THEN <<>>
    ELSE LET k == CHOOSE i \in 1..Len(s) :
                     /\ \A j \in 1..Len(s) : s[j].count <= s[i].count
                     /\ \A j \in 1..(i-1) : s[j].count < s[i].count
         IN  <<s[k]>> \o SortDescending(RemoveAt(s, k))

\* sort_values(ascending=True) on counts; equal counts stay in their order
RECURSIVE SortAscending(_)
SortAscending(s) ==
    IF s = <<>> THEN <<>>
    ELSE LET k == CHOOSE i \in 1..Len(s) :
                     /\ \A j \in 1..Len(s) : s[j].count >= s[i].count
                     /\ \A j \in 1..(i-1) : s[j].count > s[i].count
         IN  <<s[k]>> \o SortAscending(RemoveAt(s, k))

\* Series.head(n)
HeadN(s, n) == SubSeq(s, 1, IF n < Len(s) THEN n ELSE Len(s))

\* fillna("Unknown") on one cell
FillUnknown(c) == IF IsNa(c) THEN Str(Unknown) ELSE c

\* the top_n most frequent values left in value_counts order, largest first
TopEntitiesDescending(t, entity_col, top_n) ==
    IF ~InColumns(t, entity_col) THEN KeyError(entity_col)
    ELSE [kind |-> "top",
          data |-> HeadN(SortDescending(
                      CountsOf(MapCells(GetItem(t, entity_col), FillUnknown))), top_n)]

\* bar_top_entities: the top_n most frequent values, smallest count first
BarTopEntities(t, entity_col, top_n) ==
    IF ~InColumns(t, entity_col) THEN KeyError(entity_col)
    ELSE [kind |-> "top",
          data |-> SortAscending(HeadN(SortDescending(
                      CountsOf(MapCells(GetItem(t, entity_col), FillUnknown))), top_n))]

\* value_counts() without the reindex: the labels by decreasing count
CategoriesByCount(t) ==
    IF ~InColumns(t, categorie_puissance) THEN KeyError(categorie_puissance)
    ELSE LET ser == MapCells(GetItem(t, categorie_puissance), AsStr)
         IN  [kind |-> "categories",
              data |-> SortDescending([k \in 1..Len(labels) |->
                          [key   |-> labels[k],
                           count |-> Cardinality({i \in 1..Len(ser) : ser[i] = labels[k]})]])]

\* bar_power_categories: the count of each of the four labels, in cat_order
BarPowerCategories(t) ==
    IF ~InColumns(t, categorie_puissance) THEN KeyError(categorie_puissance)
    ELSE LET ser == MapCells(GetItem(t, categorie_puissance), AsStr)
         IN  [kind |-> "categories",
              data |-> [k \in 1..Len(labels) |->
                          [key   |-> labels[k],
                           count |-> Cardinality({i \in 1..Len(ser) : ser[i] = labels[k]})]]]

\* the values of a set of positions of s, in ascending order of value
RECURSIVE SortedValues(_, _)
SortedValues(s, P) ==
    IF P = {} THEN <<>>
    ELSE LET m == CHOOSE i \in P : \A j \in P : s[i] <= s[j]
         IN  <<s[m]>> \o SortedValues(s, P \ {m})

\* np.nanpercentile(s, 99), linear interpolation, in 1/100 of s's unit
Percentile99(s) ==
    LET n   == Len(s)
        srt == SortedValues(s, 1..n)
        k   == (99 * (n - 1)) \div 100
        f   == (99 * (n - 1)) % 100
    IN  IF k + 1 >= n THEN 100 * srt[n]
        ELSE 100 * srt[k + 1] + f * (srt[k + 2] - srt[k + 1])

\* deep_dives.py, "cap at 99th percentile" unticked: the histogram of the
\* numeric values as they are
HistUncapped(t) ==
    IF ~InColumns(t, puissance_nominale) THEN KeyError(puissance_nominale)
    ELSE LET c == MapCells(GetItem(t, puissance_nominale), ToNumeric)
             p == KeptPositions([i \in 1..Len(c) |-> ~IsNa(c[i])], 1)
         IN  [kind |-> "hist", data |-> [k \in 1..Len(p) |-> 100 * c[p[k]].v]]

\* clip(lower=cap) in place of clip(upper=cap)
HistClippedBelow(t) ==
    IF ~InColumns(t, puissance_nominale) THEN KeyError(puissance_nominale)
    ELSE LET c == MapCells(GetItem(t, puissance_nominale), ToNumeric)
             p == KeptPositions([i \in 1..Len(c) |-> ~IsNa(c[i])], 1)
             s == [k \in 1..Len(p) |-> c[p[k]].v]
         IN  [kind |-> "hist",
              data |-> IF s = <<>> THEN <<>>
                       ELSE LET cap == Percentile99(s)
                            IN  [k \in 1..Len(s) |->
                                    IF 100 * s[k] < cap THEN cap ELSE 100 * s[k]]]

\* hist_power_distribution: the values binned, in 1/100 of a hundredth
HistPowerDistribution(t) ==
    IF ~InColumns(t, puissance_nominale) THEN KeyError(puissance_nominale)
    ELSE LET c == MapCells(GetItem(t, puissance_nominale), ToNumeric)
             p == KeptPositions([i \in 1..Len(c) |-> ~IsNa(c[i])], 1)
             s == [k \in 1..Len(p) |-> c[p[k]].v]
         IN  [kind |-> "hist",
              data |-> IF s = <<>> THEN <<>>
                       ELSE LET cap == Percentile99(s)
                            IN  [k \in 1..Len(s) |->
                                    IF 100 * s[k] > cap THEN cap ELSE 100 * s[k]]]

\* bar_missingness: per column the number of missing cells (of NRows), the
\* top_n largest, smallest first
BarMissingness(t, top_n) ==
    LET miss == [j \in 1..NCols(t) |->
                    [key   |-> t.columns[j],
                     count |-> Cardinality({i \in 1..NRows(t) : IsNa(t.values[j][i])})]]
    IN  [kind |-> "missing", rows |-> NRows(t),
         data |-> SortAscending(HeadN(SortDescending(miss), top_n))]

-----------------------------------------------------------------------------
(* The raw tables the checks range over                                    *)

MaxRows == 3

code_insee_commune == <<"c","o","d","e","_","i","n","s","e","e","_","c","o","m","m","u","n","e">>

\* every column a raw table may carry; a raw row has one cell per entry
Universe == << id_pdc_itinerance, id_pdc_local,
               nom_amenageur, nom_operateur, nom_commune,
               consolidated_latitude, consolidated_longitude,
               puissance_nominale, date_mise_en_service,
               annee_mise_en_service, categorie_puissance, code_insee_commune >>

StrUpper(s) == [i \in 1..Len(s) |-> CharUpper(s[i])]

\* header spellings: as the code names them, as the open-data file spells
\* them, and upper case with surrounding blanks
LabelsAsIs == Universe
LabelsSource ==
    [j \in 1..Len(Universe) |->
        IF j = 2 THEN <<"I","D","_","P","D","C","_","L","o","c","a","l">>
        ELSE IF j = 4 THEN <<"N","o","m","_","O","p","e","r","a","t","e","u","r">>
        ELSE IF j = 8 THEN <<"P","u","i","s","s","a","n","c","e","_","N","o","m","i","n","a","l","e">>
        ELSE Universe[j]]
LabelsPadded == [j \in 1..Len(Universe) |-> <<" ">> \o StrUpper(Universe[j]) \o <<" ", "\t">>]

TOTALENERGIES == <<"T","O","T","A","L","E","N","E","R","G","I","E","S">>
Total_Energies == <<"T","o","t","a","l"," ","E","n","e","r","g","i","e","s">>
IONITY == <<"I","O","N","I","T","Y">>

\* raw rows, one cell per Universe column
Pool == <<
  << Str(<<"F","R","1">>), Str(<<"A","1">>), Str(TOTALENERGIES), Str(TOTALENERGIES),
     Str(<<"P","A","R","I","S">>), Num(4885), Num(235), Num(5000),
     Str(<<"2","0","2","1","-","0","3","-","1","5">>), Num(202100), Cat(labels[3]),
     Str(<<"7","5","0","5","6">>) >>,
  << Str(<<"F","R","2">>), Str(<<"A","1">>), Str(Total_Energies), Str(Total_Energies),
     Str(<<"P","a","r","i","s">>), Num(4885), Num(235), Num(5000),
     Str(<<"2","0","2","1","-","0","7","-","0","1">>), Num(202100), Cat(labels[3]),
     Str(<<"7","5","0","5","6">>) >>,
  << NaN, Str(<<"A","2">>), Str(IONITY), Str(IONITY),
     NaN, NaN, Num(235), Num(35000),
     Str(<<"n","/","a">>), NaN, Cat(labels[4]), NaN >>,
  << NaN, Str(<<"A","2">>), Str(<<" ","i","o","n","i","t","y">>), Str(<<" ","i","o","n","i","t","y">>),
     Str(<<"L","e"," ","M","a","n","s">>), Str(<<"4","8",".","8","5">>), Num(235),
     Str(<<"2","2"," ","k","W">>),
     Str(<<"2","0","2","2","-","1","1","-","0","2">>), Num(202200), NaN,
     Str(<<"7","2","1","8","1">>) >>,
  << Str(<<"F","R","2">>), NaN, NaN, NaN,
     Str(<<"l","e"," "," ","m","a","n","s">>), Str(<<"a","b","c">>), NaN, Num(2200),
     NaN, NaN, Cat(labels[2]), Str(<<"7","2","1","8","1">>) >>,
  << Str(<<"F","R","1">>), Str(<<"A","1">>), Str(<<"N","A","N">>), Str(<<"I","o","n","i","t","y">>),
     Str(<<"P","A","R","I","S">>), Num(9500), Num(-19000), Num(100000),
     Str(<<"2","0","2","1","-","1","3","-","0","1">>), Num(202100),
     Str(<<"R","a","p","i","d","e">>),
     Str(<<"7","5","0","5","6">>) >>
>>

\* the frame with the Universe columns cs, spelled by lab, and the Pool rows
\* rs; read_csv labels the rows 0, 1, 2, ...
MakeFrame(lab, cs, rs) ==
    [columns |-> [j \in 1..Len(cs) |-> lab[cs[j]]],
     index   |-> [i \in 1..Len(rs) |-> i - 1],
     values  |-> [j \in 1..Len(cs) |-> [i \in 1..Len(rs) |-> Pool[rs[i]][cs[j]]]]]

RowChoices == UNION {[1..n -> 1..Len(Pool)] : n \in 0..MaxRows}

\* the example of the specification: A1, A1 again, A2 without latitude
ExampleFrame == MakeFrame(LabelsSource, <<2, 4, 8, 6, 7>>, <<1, 2, 3>>)

\* every subset of the nine optional columns, over two fixed row lists
OptionalSubsets ==
    {MakeFrame(LabelsAsIs, SetToSeq(S), rs) :
        S \in SUBSET (1..9), rs \in {<<1, 2, 3>>, <<3, 4, 5, 6>>}}

\* chosen column lists, over every row list up to MaxRows; as in a file read
\* by read_csv, no two headers of a table are the same label after step 2
ColumnChoices ==
    { <<LabelsSource, <<2, 4, 8, 6, 7>> >>,
      <<LabelsPadded, <<1, 2, 3, 4, 5, 6, 7, 8, 9, 10, 11, 12>> >>,
      <<LabelsAsIs,   <<1, 2, 6, 7>> >>,
      <<LabelsAsIs,   <<7, 12, 2, 6>> >>,
      <<LabelsAsIs,   <<10, 11, 12, 4>> >>,
      <<LabelsSource, <<9, 3, 5, 7>> >>,
      <<LabelsPadded, <<1, 4, 8>> >> }

ChosenFrames == {MakeFrame(c[1], c[2], rs) : c \in ColumnChoices, rs \in RowChoices}

\* powers around every bin edge and across the range, in hundredths of a kW
PowerValues ==
    {e * Scale + d : e \in {0, 22, 50, 150, 1000}, d \in -2..2}
    \cup {500 * k : k \in -4..204}

PowerFrames ==
    {[columns |-> <<puissance_nominale>>, index |-> <<0>>, values |-> << <<Num(v)>> >>] :
        v \in PowerValues}

\* an operator column with three values of different frequency, one undefined
EntityFrames == {MakeFrame(LabelsAsIs, <<4>>, <<5, 1, 5, 3, 5, 1>>)}

RawTables == OptionalSubsets \cup ChosenFrames \cup PowerFrames \cup EntityFrames

-----------------------------------------------------------------------------
(* The run of clean_irve_data                                              *)

MaxTopN == 3

NoCall == [fn |-> "none", before |-> NoFrame, frames |-> Frames(NoFrame)]

VARIABLES
    pc,      \* the statement clean_irve_data is about to run
    heap,    \* the caller's frame (arg) and the function's working frame (loc)
    df,      \* the object the local name df refers to
    orig,    \* the caller's frame as it was when the call began
    ret,     \* the returned frame
    pass,    \* 1: cleaning the raw table, 2: cleaning the first result again
    first,   \* the result of pass 1; in a session, the first clean table
    call,    \* the last chart builder call: its name, the frame it was given
             \* as it was before the call, and the frames after the call
    chart,   \* what that builder handed to the plotting library
    step,    \* the statement the app.py script run is about to execute
    cache,   \* the table st.cache_data holds for load_data
    out,     \* what the current script run has shown, in order
    view,    \* the filtered copy a section builds for one chart
    reads,   \* how often the session read the dataset from the source
    derived, \* how often the session called clean_irve_data
    runs     \* how many script runs the session started

\* the state of the Streamlit session around clean_irve_data
appvars == <<step, cache, out, view, reads, derived, runs>>

vars == <<pc, heap, df, orig, ret, pass, first, call, chart,
          step, cache, out, view, reads, derived, runs>>

Init ==
    /\ \E t \in RawTables :
          /\ heap = [arg |-> t, loc |-> NoFrame]
          /\ orig = t
    /\ pc = "copy"
    /\ df = "arg"
    /\ ret = NoFrame
    /\ pass = 1
    /\ first = NoFrame
    /\ call = NoCall
    /\ chart = NoChart
    /\ step = "off"
    /\ cache = NoFrame
    /\ out = <<>>
    /\ view = NoFrame
    /\ reads = 0
    /\ derived = 0
    /\ runs = 0

\* the frame the local name df refers to
Cur == heap[df]

\* df[...] = ... : the statement writes into the object df refers to
InPlace(r, next) ==
    /\ IF r.err
       THEN pc' = "raised" /\ heap' = heap
       ELSE pc' = next /\ heap' = [heap EXCEPT ![df] = r.t]
    /\ UNCHANGED <<df, orig, ret, pass, first, call, chart>>
    /\ UNCHANGED appvars

\* df = ... : the statement builds a new frame and rebinds df to it
Rebind(r, next) ==
    /\ IF r.err
       THEN pc' = "raised" /\ heap' = heap /\ df' = df
       ELSE pc' = next /\ heap' = [heap EXCEPT !.loc = r.t] /\ df' = "loc"
    /\ UNCHANGED <<orig, ret, pass, first, call, chart>>
    /\ UNCHANGED appvars

\* 1. df = df.copy()
Copy ==
    /\ pc = "copy"
    /\ pc' = "columns"
    /\ heap' = [heap EXCEPT ![CopyOf(df)] = heap[df]]
    /\ df' = CopyOf(df)
    /\ UNCHANGED <<orig, ret, pass, first, call, chart>>
    /\ UNCHANGED appvars

\* 2. df.columns = df.columns.str.strip().str.lower()
StandardizeColumns ==
    /\ pc = "columns"
    /\ InPlace(Ok([Cur EXCEPT !.columns = NormalizeColumns(@)]), "date")

\* 3. service date and year
ConvertDate == pc = "date" /\ InPlace(ParseServiceDate(Cur), "coords")

\* 4. numeric coordinates
CoerceCoords == pc = "coords" /\ InPlace(CoerceCoordinates(Cur), "power")

\* 5. numeric power and its category
ClassifyPower == pc = "power" /\ InPlace(CategorizePower(Cur), "text")

\* 6. name columns
CleanNames == pc = "text" /\ InPlace(CleanTextFields(Cur), "dedup")

\* 7. drop duplicates
Deduplicate == pc = "dedup" /\ Rebind(DropDuplicates(Cur), "dropna")

\* 8. drop rows without coordinates
DropNa == pc = "dropna" /\ Rebind(DropMissingCoordinates(Cur), "project")

\* 9-10. return df[keep].copy()
Return ==
    /\ pc = "project"
    /\ pc' = "done"
    /\ ret' = Project(Cur)
    /\ UNCHANGED <<heap, df, orig, pass, first, call, chart>>
    /\ UNCHANGED appvars

\* clean_irve_data called on its own result
CleanAgain ==
    /\ pc = "done"
    /\ pass = 1
    /\ chart = NoChart
    /\ pc' = "copy"
    /\ pass' = 2
    /\ first' = ret
    /\ heap' = [arg |-> ret, loc |-> NoFrame]
    /\ orig' = ret
    /\ df' = "arg"
    /\ ret' = NoFrame
    /\ UNCHANGED <<call, chart>>
    /\ UNCHANGED appvars

\* a chart builder may be called once the clean table exists
CanChart == pc = "done" /\ pass = 1 /\ chart = NoChart

\* a builder that only reads the frame it is given
Reads(fn, t, c) ==
    /\ call' = [fn |-> fn, before |-> t, frames |-> Frames(t)]
    /\ chart' = c
    /\ UNCHANGED <<pc, heap, df, orig, ret, pass, first>>
    /\ UNCHANGED appvars

ShowMap ==
    /\ CanChart
    /\ LET m == MapIrvePoints(ret)
       IN  /\ call' = [fn |-> "map_irve_points", before |-> ret, frames |-> m.frames]
           /\ chart' = m.chart
    /\ UNCHANGED <<pc, heap, df, orig, ret, pass, first>>
    /\ UNCHANGED appvars

\* the count builders are given the clean table, or (as section_conclusion
\* does) the raw one
ShowLine ==
    /\ CanChart
    /\ \E t \in {heap.arg, ret}, freq \in {"Y", "Q", "M"} :
          /\ call' = [fn |-> "line_installations_over_time", before |-> t,
                      frames |-> Frames(t), freq |-> freq]
          /\ chart' = LineInstallationsOverTime(t, freq)
    /\ UNCHANGED <<pc, heap, df, orig, ret, pass, first>>
    /\ UNCHANGED appvars

ShowTopEntities ==
    /\ CanChart
    /\ \E t \in {heap.arg, ret}, k \in 1..Len(text_columns), top_n \in 1..MaxTopN :
          /\ call' = [fn |-> "bar_top_entities", before |-> t, frames |-> Frames(t),
                      entity_col |-> text_columns[k], top_n |-> top_n]
          /\ chart' = BarTopEntities(t, text_columns[k], top_n)
    /\ UNCHANGED <<pc, heap, df, orig, ret, pass, first>>
    /\ UNCHANGED appvars

ShowPowerCategories ==
    /\ CanChart
    /\ \E t \in {heap.arg, ret} :
          Reads("bar_power_categories", t, BarPowerCategories(t))

ShowHistogram ==
    /\ CanChart
    /\ \E t \in {heap.arg, ret} :
          Reads("hist_power_distribution", t, HistPowerDistribution(t))

\* section_conclusion charts the raw table, the other sections the clean one
ShowMissingness ==
    /\ CanChart
    /\ \E t \in {heap.arg, ret}, top_n \in 1..MaxTopN :
          Reads("bar_missingness", t, BarMissingness(t, top_n))

\* the next interaction renders again
Rerender ==
    /\ chart # NoChart
    /\ chart' = NoChart
    /\ call' = NoCall
    /\ UNCHANGED <<pc, heap, df, orig, ret, pass, first>>
    /\ UNCHANGED appvars

Next ==
    \/ Copy
    \/ StandardizeColumns
    \/ ConvertDate
    \/ CoerceCoords
    \/ ClassifyPower
    \/ CleanNames
    \/ Deduplicate
    \/ DropNa
    \/ Return
    \/ CleanAgain
    \/ ShowMap
    \/ ShowLine
    \/ ShowTopEntities
    \/ ShowPowerCategories
    \/ ShowHistogram
    \/ ShowMissingness
    \/ Rerender

Spec == Init /\ [][Next]_vars

-----------------------------------------------------------------------------
(* app.py and the sections: one Streamlit session. Every interaction runs   *)
(* the script again from its first line; st.cache_data keeps load_data's    *)
(* table between the runs. The widgets are taken to return a value of their *)
(* range, and the source's coordinate columns to hold numbers.              *)

MaxRuns == 2

\* the tables the source may deliver: any of six columns, three rows
AppColumns == {1, 4, 6, 7, 8, 9}
AppTables ==
    {MakeFrame(LabelsAsIs, SetToSeq(S), rs) :
        S \in SUBSET AppColumns, rs \in {<<1, 2, 3>>, <<1, 2, 6>>}}

AppInit ==
    /\ pc = "idle"
    /\ heap = Frames(NoFrame)
    /\ df = "arg"
    /\ orig = NoFrame
    /\ ret = NoFrame
    /\ pass = 1
    /\ first = NoFrame
    /\ call = NoCall
    /\ chart = NoChart
    /\ step = "load"
    /\ cache = NoFrame
    /\ out = <<>>
    /\ view = NoFrame
    /\ reads = 0
    /\ derived = 0
    /\ runs = 1

\* io.py 17-21, cache miss: read_csv delivers a table, which is memoized
LoadRead ==
    /\ step = "load"
    /\ cache = NoFrame
    /\ \E t \in AppTables :
          /\ cache' = t
          /\ heap' = Frames(t)
    /\ reads' = reads + 1
    /\ out' = out \o <<"info", "success">>
    /\ step' = "notice"
    /\ UNCHANGED <<pc, df, orig, ret, pass, first, call, chart, view, derived, runs>>

\* cache hit: the memoized table (and what load_data showed) without a read
LoadHit ==
    /\ step = "load"
    /\ cache # NoFrame
    /\ heap' = Frames(cache)
    /\ out' = out \o <<"info", "success">>
    /\ step' = "notice"
    /\ UNCHANGED <<pc, df, orig, ret, pass, first, call, chart, view, cache,
                   reads, derived, runs>>

\* io.py 19, 23-24: read_csv raises; nothing is memoized; st.error
LoadFails ==
    /\ step = "load"
    /\ cache = NoFrame
    /\ reads' = reads + 1
    /\ out' = out \o <<"info", "error">>
    /\ step' = "exception"
    /\ UNCHANGED <<pc, heap, df, orig, ret, pass, first, call, chart, view, cache,
                   derived, runs>>

\* io.py 25: st.exception(e)
ShowException ==
    /\ step = "exception"
    /\ out' = Append(out, "exception")
    /\ step' = "stop"
    /\ UNCHANGED <<pc, heap, df, orig, ret, pass, first, call, chart, view, cache,
                   reads, derived, runs>>

\* where the script goes on after st.stop(): nowhere
StIgnored == "notice"
StStop == "halted"

\* io.py 26: st.stop()
Stop ==
    /\ step = "stop"
    /\ step' = StStop
    /\ UNCHANGED <<pc, heap, df, orig, ret, pass, first, call, chart, view, cache,
                   out, reads, derived, runs>>

\* app.py 26-31: the sidebar notice and the raw table's size
Notice ==
    /\ step = "notice"
    /\ out' = Append(out, "loaded")
    /\ step' = "clean"
    /\ UNCHANGED <<pc, heap, df, orig, ret, pass, first, call, chart, view, cache,
                   reads, derived, runs>>

\* app.py 55: df = clean_irve_data(df_raw), entered
CallClean ==
    /\ step = "clean"
    /\ pc = "idle"
    /\ pc' = "copy"
    /\ df' = "arg"
    /\ orig' = heap.arg
    /\ derived' = derived + 1
    /\ UNCHANGED <<heap, ret, pass, first, call, chart, view, step, cache, out,
                   reads, runs>>

\* app.py 57-72: clean_irve_data has returned; the metrics and section_intro
SectionIntro ==
    /\ step = "clean"
    /\ pc = "done"
    /\ out' = out \o <<"cleaned", "intro">>
    /\ step' = "map"
    /\ first' = IF first = NoFrame THEN ret ELSE first
    /\ UNCHANGED <<pc, heap, df, orig, ret, pass, call, chart, view, cache,
                   reads, derived, runs>>

\* the defined values of a column, none if the table has no such column
PresentValues(t, col) ==
    IF InColumns(t, col)
    THEN {GetItem(t, col)[i] : i \in {k \in 1..NRows(t) : ~IsNa(GetItem(t, col)[k])}}
    ELSE {}

\* st.multiselect: nothing, or one of the options
Selections(S) == {{}} \cup {{x} : x \in S}

\* st.slider over the values of a numeric column: one of them (0 without)
Levels(t, col) ==
    IF PresentValues(t, col) = {} THEN {0}
    ELSE {ToNumeric(c).v : c \in {x \in PresentValues(t, col) : ~IsNa(ToNumeric(x))}}

\* st.slider with a range: lo <= hi
Ranges(S) == {r \in S \X S : r[1] <= r[2]}

\* df[df[col].isin(sel)]
IsIn(t, col, sel) ==
    TakeRows(t, [i \in 1..NRows(t) |-> GetItem(t, col)[i] \in sel])

\* df[df[col].fillna(0) >= lo]
AtLeast(t, col, lo) ==
    TakeRows(t, [i \in 1..NRows(t) |->
        LET c == GetItem(t, col)[i] IN (IF IsNa(c) THEN 0 ELSE c.v) >= lo])

\* df[df[col].between(lo, hi)], both ends included
Between(t, col, lo, hi) ==
    TakeRows(t, [i \in 1..NRows(t) |->
        LET c == GetItem(t, col)[i] IN ~IsNa(c) /\ lo <= c.v /\ c.v <= hi])

\* overview.py 45-49: df_map
MapView(t, cats_sel, pwr_min_map) ==
    LET a == IF cats_sel # {} /\ InColumns(t, categorie_puissance)
             THEN IsIn(t, categorie_puissance, cats_sel) ELSE t
    IN  IF InColumns(a, puissance_nominale)
        THEN AtLeast(a, puissance_nominale, pwr_min_map) ELSE a

\* overview.py 90-94: df_ts; ysel is <<>> when the slider is not shown
SeriesView(t, ops_sel, ysel) ==
    LET a == IF ops_sel # {} /\ InColumns(t, nom_operateur)
             THEN IsIn(t, nom_operateur, ops_sel) ELSE t
    IN  IF ysel # <<>> /\ InColumns(a, annee_mise_en_service)
        THEN Between(a, annee_mise_en_service, ysel[1], ysel[2]) ELSE a

\* deep_dives.py 30-32: df_top
TopView(t, min_kW) ==
    IF InColumns(t, puissance_nominale) THEN AtLeast(t, puissance_nominale, min_kW) ELSE t

\* deep_dives.py 73-75: df_cat
CategoryView(t, ops_sel) ==
    IF ops_sel # {} /\ InColumns(t, nom_operateur) THEN IsIn(t, nom_operateur, ops_sel) ELSE t

\* deep_dives.py 115-117: df_hist
HistView(t, p_range) ==
    IF InColumns(t, puissance_nominale)
    THEN Between(t, puissance_nominale, p_range[1], p_range[2]) ELSE t

\* the text under a chart: observations, or that there is nothing to show
Story(v, col) == IF InColumns(v, col) /\ NRows(v) > 0 THEN "observations" ELSE "no data"

\* st.plotly_chart(builder(view)): an exception the builder raises is not
\* caught anywhere; Streamlit shows it and the script run is over
Render(name, v, c, story, next) ==
    /\ view' = v
    /\ chart' = c
    /\ IF c.kind = "KeyError"
       THEN step' = "crashed" /\ out' = Append(out, "KeyError")
       ELSE step' = next /\ out' = out \o <<name>> \o story
    /\ UNCHANGED <<pc, heap, df, orig, ret, pass, first, call, cache, reads, derived, runs>>

\* overview.py 45-57
OverviewMap ==
    /\ step = "map"
    /\ \E cats_sel \in Selections(PresentValues(ret, categorie_puissance)),
          pwr_min_map \in Levels(ret, puissance_nominale) :
          LET v == MapView(ret, cats_sel, pwr_min_map)
          IN  Render("map", v, MapIrvePoints(v).chart, <<>>, "line")

\* overview.py 78-96
OverviewLine ==
    /\ step = "line"
    /\ \E freq \in {"Y", "Q", "M"},
          ops_sel \in Selections(PresentValues(ret, nom_operateur)),
          ysel \in IF PresentValues(ret, annee_mise_en_service) = {} THEN {<<>>}
                   ELSE Ranges(Levels(ret, annee_mise_en_service)) :
          LET v == SeriesView(ret, ops_sel, ysel)
          IN  Render("line", v, LineInstallationsOverTime(v, freq), <<>>, "top")

\* deep_dives.py 26-61
DeepDivesTop ==
    /\ step = "top"
    /\ \E top_n \in {5, 15, 30}, min_kW \in {0, 50 * Scale, 51 * Scale} :
          LET v == TopView(ret, min_kW)
          IN  Render("top", v, BarTopEntities(v, nom_operateur, top_n),
                     <<Story(v, nom_operateur)>>, "categories")

\* deep_dives.py 69-101
DeepDivesCategories ==
    /\ step = "categories"
    /\ \E ops_sel \in Selections(PresentValues(ret, nom_operateur)) :
          LET v == CategoryView(ret, ops_sel)
          IN  Render("categories", v, BarPowerCategories(v),
                     <<Story(v, categorie_puissance)>>, "hist")

\* deep_dives.py 108-163
DeepDivesHistogram ==
    /\ step = "hist"
    /\ \E p_range \in Ranges(Levels(ret, puissance_nominale)), cap99 \in BOOLEAN :
          LET v == HistView(ret, p_range)
          IN  Render("hist", v,
                     IF cap99 THEN HistPowerDistribution(v) ELSE HistUncapped(v),
                     <<Story(v, puissance_nominale)>>, "conclusion")

\* conclusions.py 30-145: section_conclusion(df_raw)
SectionConclusion ==
    /\ step = "conclusion"
    /\ Render("conclusion", view, BarMissingness(heap.arg, 20), <<>>, "end")

\* the user changes a widget or reloads: the script runs again from the top
Interact ==
    /\ step \in {"end", "crashed", "halted"}
    /\ runs < MaxRuns
    /\ runs' = runs + 1
    /\ step' = "load"
    /\ pc' = "idle"
    /\ heap' = Frames(NoFrame)
    /\ df' = "arg"
    /\ orig' = NoFrame
    /\ ret' = NoFrame
    /\ out' = <<>>
    /\ view' = NoFrame
    /\ chart' = NoChart
    /\ UNCHANGED <<pass, first, call, cache, reads, derived>>

\* one script run, from load_data to the last section
AppRun ==
    \/ LoadRead
    \/ LoadHit
    \/ LoadFails
    \/ ShowException
    \/ Stop
    \/ Notice
    \/ CallClean
    \/ Copy
    \/ StandardizeColumns
    \/ ConvertDate
    \/ CoerceCoords
    \/ ClassifyPower
    \/ CleanNames
    \/ Deduplicate
    \/ DropNa
    \/ Return
    \/ SectionIntro
    \/ OverviewMap
    \/ OverviewLine
    \/ DeepDivesTop
    \/ DeepDivesCategories
    \/ DeepDivesHistogram
    \/ SectionConclusion

AppNext == AppRun \/ Interact

App == AppInit /\ [][AppNext]_vars

\* load_data's except block runs to its end: the script runner executes the
\* statements of a started run one after the other, and neither st.exception
\* nor st.stop waits for anything
ExceptBlock == ShowException \/ Stop

AppLive == App /\ WF_vars(ExceptBlock)

-----------------------------------------------------------------------------
(* Properties                                                              *)

Totalenergies == <<"T","o","t","a","l","e","n","e","r","g","i","e","s">>

\* the header of column j of the caller's table, as step 2 will spell it
OrigLabel(j) == StrLower(StrStrip(orig.columns[j]))
OrigHas(name) == \E j \in 1..NCols(orig) : OrigLabel(j) = name
OrigCol(name) == orig.values[CHOOSE j \in 1..NCols(orig) : OrigLabel(j) = name]

\* the position in the caller's table of the row labelled l
OrigPos(l) == CHOOSE p \in 1..NRows(orig) : orig.index[p] = l

\* the frame whose rows are retained at this point of the run
Retained == IF pc = "done" THEN ret ELSE Cur

OnExample == pass = 1 /\ orig = ExampleFrame

\* the single row the example is cleaned to, with the category named label
ExampleResult(label) ==
    /\ ret.index = <<0>>
    /\ ret.columns = <<nom_operateur, consolidated_latitude, consolidated_longitude,
                       puissance_nominale, categorie_puissance>>
    /\ GetItem(ret, nom_operateur) = <<Str(Totalenergies)>>
    /\ GetItem(ret, categorie_puissance) = <<Cat(label)>>
    /\ GetItem(ret, consolidated_latitude) = <<Num(4885)>>
    /\ GetItem(ret, consolidated_longitude) = <<Num(235)>>

\* the rows the example loses: row 1 (A1 again) to the deduplication, row 2
\* (A2, no latitude) to the coordinate filter
ExampleDrops ==
    /\ (OnExample /\ pc = "dropna") => Cur.index = <<0, 2>>
    /\ (OnExample /\ pc = "project") => Cur.index = <<0>>

\* C1 as stated: the example table is cleaned to exactly one row, operator
\* "Totalenergies", category "Fast (22-50kW)", coordinates 48.85 / 2.35; the
\* second A1 row is dropped as a duplicate, the A2 row for its missing latitude.
C1_ExampleIsFast ==
    /\ (OnExample /\ pc = "done") => ExampleResult(labels[2])
    /\ ExampleDrops

\* C1 as amended: the same, with the category "Very fast (50-150kW)": the
\* power 50 is the closed lower edge of [50,150).
C1_ExampleIsVeryFast ==
    /\ (OnExample /\ pc = "done") => ExampleResult(labels[3])
    /\ ExampleDrops

C1_Witness == OnExample /\ pc = "done" /\ NRows(ret) = 1

\* the category the claim assigns to a coerced power
Within(c, lo, hi) == ~IsNa(c) /\ lo * Scale <= c.v /\ c.v < hi * Scale
CategoryClaimed(c) ==
    IF Within(c, 0, 22) THEN Cat(labels[1])
    ELSE IF Within(c, 22, 50) THEN Cat(labels[2])
    ELSE IF Within(c, 50, 150) THEN Cat(labels[3])
    ELSE IF Within(c, 150, 1000) THEN Cat(labels[4])
    ELSE NaN

\* the frames that hold the categorized power at this point of the run
Categorized(t) ==
    /\ InColumns(t, puissance_nominale)
    /\ InColumns(t, categorie_puissance)
    /\ \A i \in 1..NRows(t) :
          LET p == GetItem(t, puissance_nominale)[i]
              c == GetItem(t, categorie_puissance)[i]
          IN  /\ p.t \in {"num", "nan"}
              /\ c = CategoryClaimed(p)
              /\ Cardinality({k \in 1..Len(labels) : c = Cat(labels[k])})
                    = (IF IsNa(c) THEN 0 ELSE 1)

\* C2: the power category is a function of the coerced power alone: [0,22)
\* Normal, [22,50) Fast, [50,150) Very fast, [150,1000) Ultra-fast, and
\* undefined for an undefined, negative or >= 1000 power; never two categories.
C2_CategoryByPower ==
    /\ (pc \in {"text", "dedup", "dropna", "project"} /\ InColumns(Cur, puissance_nominale))
          => Categorized(Cur)
    /\ (pc = "done" /\ InColumns(ret, puissance_nominale)) => Categorized(ret)

C2_Witness ==
    /\ pc = "done"
    /\ orig \in PowerFrames
    /\ OrigCol(puissance_nominale) = <<Num(22 * Scale)>>
    /\ GetItem(ret, categorie_puissance) = <<Cat(labels[2])>>

\* the identity columns of the caller's table and a row's key over them
OrigIdColumns == {j \in 1..NCols(orig) : OrigLabel(j) \in {id_pdc_itinerance, id_pdc_local}}

\* C3: with an identity column, no two retained rows come from raw rows with
\* the same identity key; the deduplication keeps, for each key, the first
\* raw row and discards every later one.
C3_FirstOccurrenceOnly ==
    (pc \in {"dropna", "project", "done"} /\ OrigIdColumns # {}) =>
        LET ids   == OrigIdColumns
            key   == [p \in 1..NRows(orig) |-> [j \in ids |-> orig.values[j][p]]]
            isFst == [p \in 1..NRows(orig) |-> \A q \in 1..(p-1) : key[q] # key[p]]
            from  == [a \in 1..NRows(Retained) |-> OrigPos(Retained.index[a])]
        IN  /\ \A a, b \in 1..NRows(Retained) : a # b => key[from[a]] # key[from[b]]
            /\ \A a \in 1..NRows(Retained) : isFst[from[a]]
            /\ pc = "dropna" =>
                  \A p \in 1..NRows(orig) :
                     isFst[p] <=> \E a \in 1..NRows(Cur) : Cur.index[a] = orig.index[p]

C3_Witness ==
    /\ pc = "dropna"
    /\ Cardinality(OrigIdColumns) = 2
    /\ NRows(orig) = 3
    /\ Cur.index = <<0, 1>>

\* C4: when the raw table has both coordinate columns, every row of the
\* result has a defined latitude and a defined longitude, unparsable text
\* included (coerced to undefined, then dropped).
C4_CoordinatesDefined ==
    (pc = "done" /\ OrigHas(consolidated_latitude) /\ OrigHas(consolidated_longitude)) =>
        /\ InColumns(ret, consolidated_latitude)
        /\ InColumns(ret, consolidated_longitude)
        /\ \A i \in 1..NRows(ret) :
              /\ ~IsNa(GetItem(ret, consolidated_latitude)[i])
              /\ ~IsNa(GetItem(ret, consolidated_longitude)[i])

C4_Witness ==
    /\ pc = "done"
    /\ pass = 1
    /\ OrigHas(consolidated_latitude) /\ OrigHas(consolidated_longitude)
    /\ \E p \in 1..NRows(orig) : OrigCol(consolidated_latitude)[p] = Str(<<"a","b","c">>)
    /\ \E p \in 1..NRows(orig) : OrigCol(consolidated_latitude)[p] = Str(<<"4","8",".","8","5">>)
    /\ NRows(ret) = 1
    /\ GetItem(ret, consolidated_latitude) = <<Num(4885)>>

\* a coordinate within its geographic range (degrees)
ValidCoordinate(c, bound) == c.t = "num" /\ 0 - bound * Scale <= c.v /\ c.v <= bound * Scale

\* C5: every retained row has a latitude within [-90,90] and a longitude
\* within [-180,180]; a raw row without such a pair is dropped.
C5_CoordinatesInRange ==
    (pc = "done" /\ InColumns(ret, consolidated_latitude)
                 /\ InColumns(ret, consolidated_longitude)) =>
        \A i \in 1..NRows(ret) :
            /\ ValidCoordinate(GetItem(ret, consolidated_latitude)[i], 90)
            /\ ValidCoordinate(GetItem(ret, consolidated_longitude)[i], 180)

\* the position of a label in the allow-list, 0 when it is not on it
KeepPos(name) == IF \E k \in 1..Len(keep) : keep[k] = name
                 THEN CHOOSE k \in 1..Len(keep) : keep[k] = name ELSE 0

\* C6: the result's columns are exactly the allow-list entries that exist in
\* the table just before projection, in allow-list order: none added, none
\* kept from outside the allow-list.
C6_ProjectionOnAllowList ==
    pc = "done" =>
        /\ \A j \in 1..NCols(ret) : KeepPos(ret.columns[j]) > 0 /\ InColumns(Cur, ret.columns[j])
        /\ \A k \in 1..Len(keep) : InColumns(Cur, keep[k]) => InColumns(ret, keep[k])
        /\ \A i, j \in 1..NCols(ret) : i < j => KeepPos(ret.columns[i]) < KeepPos(ret.columns[j])
        /\ \A j \in 1..NCols(ret) : ret.values[j] = GetItem(Cur, ret.columns[j])
        /\ ret.index = Cur.index

C6_Witness ==
    /\ pc = "done"
    /\ Cur.columns = <<consolidated_longitude, code_insee_commune, id_pdc_local,
                       consolidated_latitude>>
    /\ ret.columns = <<consolidated_latitude, consolidated_longitude>>
    /\ NRows(ret) >= 1

\* C7 as stated: a raw table without a service-date column, whatever its
\* other columns, is cleaned without error to a table with neither
\* date_mise_en_service nor annee_mise_en_service.
C7_NoDateNoYear ==
    (pc \in {"raised", "done"} /\ ~OrigHas(date_mise_en_service)) =>
        /\ pc # "raised"
        /\ ~InColumns(ret, date_mise_en_service)
        /\ ~InColumns(ret, annee_mise_en_service)

\* C7 as amended: such a table is cleaned without error to a table without
\* date_mise_en_service, and with annee_mise_en_service only when the raw
\* table itself has a column of that name, which is then kept as it is.
C7_NoDateNoDerivedYear ==
    (pc \in {"raised", "done"} /\ ~OrigHas(date_mise_en_service)) =>
        /\ pc # "raised"
        /\ ~InColumns(ret, date_mise_en_service)
        /\ InColumns(ret, annee_mise_en_service) <=> OrigHas(annee_mise_en_service)
        /\ InColumns(ret, annee_mise_en_service) =>
              \A i \in 1..NRows(ret) :
                 GetItem(ret, annee_mise_en_service)[i]
                    = OrigCol(annee_mise_en_service)[OrigPos(ret.index[i])]

C7_Witness ==
    /\ pc = "done"
    /\ ~OrigHas(date_mise_en_service)
    /\ OrigHas(puissance_nominale)
    /\ NRows(ret) >= 2
    /\ NCols(ret) >= 3

\* what a step may do to the working frame when its columns are missing
StepSkipped ==
    /\ (pc = "date" /\ ~InColumns(Cur, date_mise_en_service)) => heap'[df'] = Cur
    /\ (pc = "coords" /\ ~InColumns(Cur, consolidated_latitude)
                      /\ ~InColumns(Cur, consolidated_longitude)) => heap'[df'] = Cur
    /\ (pc = "power" /\ ~InColumns(Cur, puissance_nominale)) => heap'[df'] = Cur
    /\ (pc = "text" /\ \A k \in 1..Len(text_columns) : ~InColumns(Cur, text_columns[k]))
          => heap'[df'] = Cur
    /\ (pc = "dedup" /\ \A k \in 1..Len(id_columns) : ~InColumns(Cur, id_columns[k]))
          => heap'[df'] = Cur
    /\ (pc = "dropna" /\ ~(InColumns(Cur, consolidated_latitude)
                           /\ InColumns(Cur, consolidated_longitude)))
          => heap'[df'] = Cur
    /\ (pc \in {"coords", "text"}) =>
          /\ heap'[df'].columns = Cur.columns
          /\ \A j \in 1..NCols(Cur) :
                (pc = "coords" /\ Cur.columns[j] \notin {consolidated_latitude, consolidated_longitude})
                \/ (pc = "text" /\ Cur.columns[j] \notin {nom_amenageur, nom_operateur, nom_commune})
                => heap'[df'].values[j] = Cur.values[j]

\* C8: whatever subset of the optional columns the raw table has, the run
\* raises no error, and a step whose column(s) are absent leaves the table
\* unchanged.
C8_MissingColumnsSkipped == [][pc' # "raised" /\ StepSkipped]_vars

C8_Witness ==
    /\ pc = "done"
    /\ pass = 1
    /\ orig.columns = <<>>
    /\ NRows(orig) = 3
    /\ ret = orig

\* C9: cleaning the result of clean_irve_data again gives as many rows.
C9_SecondPassKeepsRows == (pc = "done" /\ pass = 2) => NRows(ret) = NRows(first)

C9_Witness ==
    /\ pc = "done"
    /\ pass = 2
    /\ NRows(ret) = 2
    /\ ~InColumns(first, consolidated_latitude)
    /\ InColumns(first, nom_operateur)

\* C10: neither clean_irve_data nor a chart builder changes the table it is
\* given: its column names, rows and values are as before the call.
C10_InputUntouched ==
    /\ heap.arg = orig
    /\ call.frames.arg = call.before

C10_Witness ==
    /\ call.fn = "map_irve_points"
    /\ chart.kind = "map"
    /\ InColumns(call.frames.loc, col__size)
    /\ ~InColumns(call.before, col__size)
    /\ NRows(call.before) >= 2
    /\ heap.loc.columns # orig.columns

\* the rows of the charted table and the cells of one of its columns
Charted(fn) == call.fn = fn
ChartedCells(col) == GetItem(call.before, col)

\* the rows of the category chart's table that carry label k
RowsOfLabel(k) ==
    {i \in 1..NRows(call.before) :
        ChartedCells(categorie_puissance)[i] \in {Cat(labels[k]), Str(labels[k])}}

\* the four labels in cat_order, a label that no row carries counting 0
FourInOrder ==
    /\ chart.kind = "categories"
    /\ Len(chart.data) = 4
    /\ \A k \in 1..4 :
          /\ chart.data[k].key = labels[k]
          /\ chart.data[k].count = Cardinality(RowsOfLabel(k))

CategoryTotal ==
    chart.data[1].count + chart.data[2].count + chart.data[3].count + chart.data[4].count

\* C11 as stated: bar_power_categories plots the four labels in cat_order,
\* and the four counts add up to the rows whose category is defined.
C11_CountsSumToDefined ==
    (Charted("bar_power_categories") /\ InColumns(call.before, categorie_puissance)) =>
        /\ FourInOrder
        /\ CategoryTotal = Cardinality({i \in 1..NRows(call.before) :
                                ~IsNa(ChartedCells(categorie_puissance)[i])})

\* C11: bar_power_categories plots the four labels in cat_order whatever
\* their counts, a label no row carries counting 0; the counts add up to the
\* rows whose category is one of the four labels, which for a clean table
\* whose category clean_irve_data computed are the rows with a category.
C11_CountsSumToLabelled ==
    (Charted("bar_power_categories") /\ InColumns(call.before, categorie_puissance)) =>
        /\ FourInOrder
        /\ CategoryTotal = Cardinality(UNION {RowsOfLabel(k) : k \in 1..4})
        /\ (call.before = ret /\ InColumns(ret, puissance_nominale)) =>
              CategoryTotal = Cardinality({i \in 1..NRows(ret) :
                                  ~IsNa(ChartedCells(categorie_puissance)[i])})

C11_Witness ==
    /\ Charted("bar_power_categories")
    /\ call.before = ret
    /\ InColumns(ret, puissance_nominale)
    /\ chart.kind = "categories"
    /\ chart.data[1].count = 0
    /\ chart.data[3].count = 2
    /\ CategoryTotal = 2
    /\ NRows(ret) = 3

\* the numeric values of the charted power column, in row order, undefined
\* ones left out (hundredths of a kW)
RECURSIVE DefinedNumbers(_)
DefinedNumbers(cells) ==
    IF cells = <<>> THEN <<>>
    ELSE LET c == ToNumeric(cells[Len(cells)])
             r == DefinedNumbers(SubSeq(cells, 1, Len(cells) - 1))
         IN  IF IsNa(c) THEN r ELSE Append(r, c.v)

\* C12: every value hist_power_distribution bins is at most the 99th
\* percentile of the defined numeric values of the power column: a value above
\* it is replaced by it, the others are binned as they are, undefined values
\* are left out, and the percentile lies within the range of the values.
C12_ClippedAtPercentile ==
    (Charted("hist_power_distribution") /\ InColumns(call.before, puissance_nominale)) =>
        LET s == DefinedNumbers(ChartedCells(puissance_nominale))
        IN  /\ chart.kind = "hist"
            /\ Len(chart.data) = Len(s)
            /\ s # <<>> =>
                  LET cap == Percentile99(s)
                  IN  /\ \E i \in 1..Len(s) : 100 * s[i] <= cap
                      /\ \E i \in 1..Len(s) : cap <= 100 * s[i]
                      /\ \A k \in 1..Len(s) :
                            /\ chart.data[k] <= cap
                            /\ 100 * s[k] > cap => chart.data[k] = cap
                            /\ 100 * s[k] <= cap => chart.data[k] = 100 * s[k]

C12_Witness ==
    /\ Charted("hist_power_distribution")
    /\ chart.kind = "hist"
    /\ NRows(call.before) = 4
    /\ chart.data = <<100 * 350 * Scale, 100 * 22 * Scale, 100 * 987 * Scale>>

\* the label bar_top_entities counts row i of the charted column under
EntityLabel(i) ==
    LET c == ChartedCells(call.entity_col)[i]
    IN  IF IsNa(c) THEN Str(Unknown) ELSE c

EntityLabels == {EntityLabel(i) : i \in 1..NRows(call.before)}
EntityCount(x) == Cardinality({i \in 1..NRows(call.before) : EntityLabel(i) = x})

\* C13: bar_top_entities counts the rows of each distinct value, undefined
\* values under the one label "Unknown"; it plots min(top_n, number of labels)
\* distinct labels, none of the labels left out has a higher count than one
\* plotted, and the bars are in ascending order of count.
C13_TopEntities ==
    (Charted("bar_top_entities") /\ InColumns(call.before, call.entity_col)) =>
        /\ chart.kind = "top"
        /\ Len(chart.data) = IF call.top_n < Cardinality(EntityLabels)
                              THEN call.top_n ELSE Cardinality(EntityLabels)
        /\ \A k \in 1..Len(chart.data) :
              /\ chart.data[k].key \in EntityLabels
              /\ chart.data[k].count = EntityCount(chart.data[k].key)
              /\ \A j \in 1..Len(chart.data) :
                    /\ j # k => chart.data[j].key # chart.data[k].key
                    /\ j < k => chart.data[j].count <= chart.data[k].count
              /\ \A x \in EntityLabels :
                    (\A j \in 1..Len(chart.data) : chart.data[j].key # x)
                        => EntityCount(x) <= chart.data[k].count

C13_Witness ==
    /\ Charted("bar_top_entities")
    /\ chart.kind = "top"
    /\ call.top_n = 2
    /\ Cardinality(EntityLabels) = 3
    /\ Str(Unknown) \in EntityLabels
    /\ chart.data = << [key |-> Str(TOTALENERGIES), count |-> 2],
                       [key |-> Str(Unknown), count |-> 3] >>

\* the parsed date of row i of the charted table, and the rows whose date
\* falls in the period of point k
ChartedDate(i) == ToDatetime(ChartedCells(date_mise_en_service)[i])
RowsOfPoint(k) ==
    {i \in 1..NRows(call.before) :
        /\ ~IsNa(ChartedDate(i))
        /\ ToPeriod(ChartedDate(i), call.freq) = chart.data[k].period}

\* date a is earlier than date b
Earlier(a, b) ==
    \/ a.y < b.y
    \/ a.y = b.y /\ a.m < b.m
    \/ a.y = b.y /\ a.m = b.m /\ a.d < b.d

\* dates a and b fall in the same year, quarter or month
SamePeriod(a, b, freq) ==
    /\ a.y = b.y
    /\ freq = "Q" => (a.m - 1) \div 3 = (b.m - 1) \div 3
    /\ freq = "M" => a.m = b.m

\* C14: line_installations_over_time plots one point per year, quarter or
\* month that holds a row with a parsable date; its count is the number of
\* such rows; the points are in chronological order; a row whose date is
\* undefined or does not parse is in no point, so the counts add up to the
\* number of rows whose date parses.
C14_PointPerPeriod ==
    (Charted("line_installations_over_time")
        /\ InColumns(call.before, date_mise_en_service)) =>
        /\ chart.kind = "line"
        /\ \A k \in 1..Len(chart.data) :
              /\ RowsOfPoint(k) # {}
              /\ chart.data[k].count = Cardinality(RowsOfPoint(k))
              /\ \A i, j \in RowsOfPoint(k) :
                    SamePeriod(ChartedDate(i), ChartedDate(j), call.freq)
              /\ \A j \in 1..(k - 1) :
                    \A a \in RowsOfPoint(j), b \in RowsOfPoint(k) :
                        /\ Earlier(ChartedDate(a), ChartedDate(b))
                        /\ ~SamePeriod(ChartedDate(a), ChartedDate(b), call.freq)
        /\ \A i \in 1..NRows(call.before) :
              Cardinality({k \in 1..Len(chart.data) : i \in RowsOfPoint(k)})
                  = IF IsNa(ChartedDate(i)) THEN 0 ELSE 1

C14_Witness ==
    /\ Charted("line_installations_over_time")
    /\ chart.kind = "line"
    /\ call.freq = "M"
    /\ call.before = heap.arg
    /\ NRows(call.before) = 3
    /\ ChartedCells(date_mise_en_service)[1] = Str(<<"2","0","2","2","-","1","1","-","0","2">>)
    /\ chart.data = << [period |-> 12 * 2021 + 2, count |-> 2],
                       [period |-> 12 * 2022 + 10, count |-> 1] >>

\* the columns the chart builders of the sections require
RequiredColumns ==
    {nom_operateur, categorie_puissance, puissance_nominale, date_mise_en_service}

\* C15: when the table a section is given lacks a column one of its chart
\* builders requires, the builder's KeyError does not end the script run: it
\* is avoided or caught, so the run never stops on it.
C15_MissingColumnNoCrash ==
    ~(step = "crashed" /\ chart.kind = "KeyError" /\ chart.col \in RequiredColumns)

\* what the current script run has shown
Shown(e) == \E k \in 1..Len(out) : out[k] = e

\* the run has cleaned or has rendered (part of) a section
PastLoading ==
    \/ pc # "idle"
    \/ step \in {"map", "line", "top", "categories", "hist", "conclusion", "end", "crashed"}
    \/ \E e \in {"cleaned", "intro", "map", "line", "top", "categories", "hist",
                  "conclusion", "KeyError"} : Shown(e)

\* C16: in a run in which load_data fails, the error is shown, then the run
\* halts; the "Dataset loaded successfully" notice, clean_irve_data and the
\* sections are not reached in that run. Cleaning and the sections run only
\* when load_data has returned a table. A failed load always ends halted.
C16_FailedLoadHalts ==
    /\ [](Shown("error") =>
            /\ step \in {"exception", "stop", "halted"}
            /\ ~Shown("loaded")
            /\ ~PastLoading
            /\ heap.arg = NoFrame)
    /\ [](step = "halted" => Shown("error") /\ Shown("exception"))
    /\ []((PastLoading \/ Shown("loaded")) =>
            /\ ~Shown("error")
            /\ heap.arg # NoFrame
            /\ heap.arg = cache)
    /\ (Shown("error") ~> step = "halted")

C16_Witness ==
    /\ step = "halted"
    /\ out = <<"info", "error", "exception">>
    /\ runs = 2
    /\ reads = 2
    /\ derived = 0

\* C17: in one session the raw table is read from the source once, and the
\* clean table is derived once per raw table.
C17_DerivedOncePerRawTable ==
    /\ cache = NoFrame => derived = 0
    /\ cache # NoFrame => derived <= 1

\* what does hold of the session (C17): once a table is memoized the source
\* is not read again and the memoized table stays, and within a script run
\* the sections leave the clean table as it is
C17_ReadOnceCleanUnchanged ==
    [][/\ cache # NoFrame => (reads' = reads /\ cache' = cache)
       /\ (pc = "done" /\ step' # "load") => ret' = ret]_vars

\* and every run's sections are given the same clean table (C17)
C17_SameCleanTable ==
    step \in {"map", "line", "top", "categories", "hist", "conclusion", "end", "crashed"}
        => ret = first

\* the raw values a and b of a name column differ at most in letter case and
\* surrounding whitespace: both are undefined, or both are texts that agree
\* once trimmed and lower-cased
SameSpelling(a, b) ==
    \/ IsNa(a) /\ IsNa(b)
    \/ a.t = "str" /\ b.t = "str" /\ StrLower(StrStrip(a.s)) = StrLower(StrStrip(b.s))

\* a text that is trimmed and in title case
Canonical(s) == StrStrip(s) = s /\ StrTitle(s) = s

\* the name columns of the caller's table, by their normalized header
OrigNameColumns ==
    {k \in 1..Len(text_columns) : OrigHas(text_columns[k])}

\* C18 as stated: after the text step, two raw values of a name column have
\* the same output text exactly when they differ at most in letter case and
\* surrounding whitespace.
C18_SameTextIffSameSpelling ==
    pc = "dedup" =>
        \A k \in OrigNameColumns :
            LET raw == OrigCol(text_columns[k])
                new == GetItem(Cur, text_columns[k])
            IN  \A i, j \in 1..NRows(orig) :
                    SameSpelling(raw[i], raw[j]) <=> new[i] = new[j]

\* C18: after the text step every value of a name column is a trimmed,
\* title-cased text; two raw texts have the same output exactly when they
\* differ at most in letter case and surrounding whitespace; an undefined raw
\* value becomes the text "Nan", the output of the raw text "nan" in any case.
C18_SameTextIffSameSpellingOfTexts ==
    pc = "dedup" =>
        \A k \in OrigNameColumns :
            LET raw == OrigCol(text_columns[k])
                new == GetItem(Cur, text_columns[k])
            IN  \A i \in 1..NRows(orig) :
                    /\ new[i].t = "str"
                    /\ Canonical(new[i].s)
                    /\ IsNa(raw[i]) => new[i] = Str(<<"N","a","n">>)
                    /\ raw[i].t = "str" =>
                          /\ StrLower(new[i].s) = StrLower(StrStrip(raw[i].s))
                          /\ \A j \in 1..NRows(orig) :
                                raw[j].t = "str" =>
                                    (SameSpelling(raw[i], raw[j]) <=> new[i] = new[j])

C18_Witness ==
    /\ pc = "dedup"
    /\ pass = 1
    /\ NRows(orig) = 3
    /\ OrigHas(nom_amenageur)
    /\ OrigHas(nom_commune)
    /\ OrigCol(nom_amenageur) = <<Str(IONITY), Str(<<" ","i","o","n","i","t","y">>), NaN>>
    /\ GetItem(Cur, nom_amenageur)[1] = GetItem(Cur, nom_amenageur)[2]
    /\ OrigCol(nom_commune)[2] = Str(<<"L","e"," ","M","a","n","s">>)
    /\ OrigCol(nom_commune)[3] = Str(<<"l","e"," "," ","m","a","n","s">>)
    /\ GetItem(Cur, nom_commune)[2] # GetItem(Cur, nom_commune)[3]

\* raw row p of the caller's table has a latitude and a longitude that are
\* numbers once coerced
Located(p) ==
    /\ ~IsNa(ToNumeric(OrigCol(consolidated_latitude)[p]))
    /\ ~IsNa(ToNumeric(OrigCol(consolidated_longitude)[p]))

\* C19: for a raw table with an identity column and both coordinate columns,
\* the output rows (looked at when the call returns) are, in raw order, the first occurrences of the identity
\* keys that have both coordinates themselves: a first occurrence without
\* coordinates is not replaced by a later duplicate that has them. With a
\* power column every output row carries the category of its own raw power.
C19_DedupThenLocate ==
    (pc = "done" /\ chart = NoChart /\ OrigIdColumns # {}
                 /\ OrigHas(consolidated_latitude)
                 /\ OrigHas(consolidated_longitude)) =>
        LET ids   == OrigIdColumns
            key   == [p \in 1..NRows(orig) |-> [j \in ids |-> orig.values[j][p]]]
            good  == {p \in 1..NRows(orig) :
                         Located(p) /\ \A q \in 1..(p-1) : key[q] # key[p]}
            rows  == SetToSeq(good)
        IN  /\ ret.index = [k \in 1..Len(rows) |-> orig.index[rows[k]]]
            /\ OrigHas(puissance_nominale) =>
                  /\ InColumns(ret, categorie_puissance)
                  /\ \A k \in 1..Len(rows) :
                        GetItem(ret, categorie_puissance)[k]
                            = CategoryClaimed(ToNumeric(OrigCol(puissance_nominale)[rows[k]]))

C19_Witness ==
    /\ pc = "done"
    /\ pass = 1
    /\ NRows(orig) = 3
    /\ OrigIdColumns # {}
    /\ OrigHas(consolidated_latitude) /\ OrigHas(consolidated_longitude)
    /\ OrigHas(puissance_nominale)
    /\ \A j \in OrigIdColumns : orig.values[j][1] = orig.values[j][2]
    /\ ~Located(1)
    /\ Located(2)
    /\ ret.index = <<2>>
    /\ GetItem(ret, categorie_puissance) = <<Cat(labels[3])>>

\* raw rows p and q hold the same identity values, undefined in the same
\* identity columns
SameIdentity(p, q) ==
    \A j \in OrigIdColumns :
        LET a == orig.values[j][p]
            b == orig.values[j][q]
        IN  IF IsNa(a) \/ IsNa(b) THEN IsNa(a) /\ IsNa(b) ELSE a = b

\* the row labelled as raw row p is still in the table
Survives(p) == \E a \in 1..NRows(Cur) : Cur.index[a] = orig.index[p]

\* C20: right after the deduplication, of the raw rows that hold the same
\* identity values with undefined in the same positions (also when every
\* identity value is undefined) only the first in raw order is left.
C20_UndefinedKeyIsAKey ==
    (pc = "dropna" /\ OrigIdColumns # {}) =>
        \A q \in 1..NRows(orig) :
            Survives(q) <=> ~\E p \in 1..(q-1) : SameIdentity(p, q)

C20_Witness ==
    /\ pc = "dropna"
    /\ pass = 1
    /\ NRows(orig) = 4
    /\ Cardinality(OrigIdColumns) = 1
    /\ \A j \in OrigIdColumns : IsNa(orig.values[j][1]) /\ IsNa(orig.values[j][2])
    /\ Cur.index = <<0, 2, 3>>

\* the text an undefined name is coerced to, title-cased
Nan == <<"N","a","n">>

\* the raw value of name column col in the raw row that row a of the returned
\* table comes from
RawName(col, a) == OrigCol(col)[OrigPos(ret.index[a])]

\* the rows of the charted column that hold the value x
RowsHolding(x) ==
    {i \in 1..NRows(call.before) : ChartedCells(call.entity_col)[i] = x}

\* C21: when clean_irve_data returns, every value of a name column of the
\* returned table is a text, and it is the text "Nan" where the raw value was
\* undefined. bar_top_entities on the returned table therefore fills no row
\* with "Unknown": every bar counts the rows that hold its text, and the
\* rows with an undefined raw name are counted under the bar "Nan", which is
\* plotted unless top_n bars with at least as many rows are.
C21_UndefinedNameIsNan ==
    pc = "done" =>
        /\ \A k \in 1..Len(text_columns) :
              InColumns(ret, text_columns[k]) =>
                  /\ OrigHas(text_columns[k])
                  /\ \A a \in 1..NRows(ret) :
                        LET c == GetItem(ret, text_columns[k])[a]
                        IN  /\ c.t = "str"
                            /\ IsNa(RawName(text_columns[k], a)) => c = Str(Nan)
        /\ (Charted("bar_top_entities") /\ call.before = ret
                                        /\ InColumns(ret, call.entity_col)) =>
              /\ chart.kind = "top"
              /\ \A k \in 1..Len(chart.data) :
                    /\ chart.data[k].count >= 1
                    /\ chart.data[k].count
                          = Cardinality(RowsHolding(chart.data[k].key))
              /\ RowsHolding(NaN) = {}
              /\ RowsHolding(Str(Nan)) # {} =>
                    \/ \E k \in 1..Len(chart.data) :
                          chart.data[k] = [key   |-> Str(Nan),
                                           count |-> Cardinality(RowsHolding(Str(Nan)))]
                    \/ /\ Len(chart.data) = call.top_n
                       /\ \A k \in 1..Len(chart.data) :
                             chart.data[k].count >= Cardinality(RowsHolding(Str(Nan)))

C21_Witness ==
    /\ pc = "done"
    /\ pass = 1
    /\ Charted("bar_top_entities")
    /\ call.before = ret
    /\ call.entity_col = nom_amenageur
    /\ call.top_n = 2
    /\ OrigHas(nom_amenageur)
    /\ NRows(ret) = 3
    /\ IsNa(RawName(nom_amenageur, 3))
    /\ chart.kind = "top"
    /\ chart.data = << [key |-> Str(Nan), count |-> 1],
                       [key |-> Str(<<"I","o","n","i","t","y">>), count |-> 2] >>

=============================================================================
